---- MODULE Spec2Model ----
(***************************************************************************)
(* Model of salve_ipc.IPC (src/salve_ipc/ipc.py): the client side of the   *)
(* IPC layer, its identifier allocation, request correlation, response     *)
(* draining, file mirror and worker-process supervision.  The worker       *)
(* (salve_ipc/server.py) and the message vocabulary (salve_ipc/misc.py)    *)
(* are not part of the sources; the worker is modelled from its contract   *)
(* in section 6 of the specification.                                      *)
(***************************************************************************)
EXTENDS Integers, Sequences, FiniteSets, Bags, TLC

(* ------------------------------ bounds -------------------------------- *)

\* IPC.__init__(id_max): the size of the identifier space (default 15000).
id_max == 2

(* ----------------------------- vocabulary ----------------------------- *)

\* misc.COMMANDS, as listed in the docstring of class IPC.
COMMANDS == {"autocomplete", "replacements", "highlight"}

\* A command name outside COMMANDS, as an input of the facade.
BadCommand == "not_a_command"

\* The commands the facade is called with: two of COMMANDS and a bad one,
\* or one of each where the file mirror is what is examined.
CommandInputs == {"autocomplete", "highlight", BadCommand}
FewCommandInputs == {"autocomplete", BadCommand}

FileNames == {"a.txt", "b.txt"}

\* The files request and remove_file are called with.
FileInputs == {"a.txt"}

\* The (filename, contents) pairs update_file is called with: one pair
\* where the correlator is what is examined.
UpdateInputs == {<<"a.txt", "1">>, <<"a.txt", "2">>, <<"b.txt", "2">>}
FewUpdateInputs == {<<"a.txt", "1">>}

\* The command field of a response that carries no "command" key.
NoCommand == "<absent>"

\* Python's None in newest_responses and as get_response's result.
None == [id |-> 0, command |-> NoCommand]

\* Outcomes of a call: no exception, or the Exception of the method that
\* raised it (their messages differ), or list.remove's ValueError.
NoError == "none"
RequestInvalidCommand == "Command not in builtin commands"
RequestUnknownFile == "File does not exist in system"
CancelInvalidCommand == "Cannot cancel command"
GetInvalidCommand == "Cannot get response of command"
RemoveUnknownFile == "Cannot remove file"
ValueError == "ValueError: list.remove(x): x not in list"

\* The call does not return: response_queue.get() waits for ever.
NoReturn == "<no return>"

Ids == 1..id_max

(* ------------------------------- state -------------------------------- *)

VARIABLES
    all_ids,           \* self.all_ids: the list, as the bag of its elements
    current_ids,       \* self.current_ids: command -> live identifier or 0
    newest_responses,  \* self.newest_responses: command -> Response or None
    files,             \* self.files: insertion-ordered dict, as a sequence
    requests_queue,    \* self.requests_queue: client -> worker
    response_queue,    \* self.response_queue: worker -> client
    alive,             \* self.main_server.is_alive()
    pending,           \* worker: messages received and not yet answered
    torn,              \* main_server.kill() was called on the current process
    writing,           \* how much of the last response of response_queue is
                       \* in the pipe: Whole, Held, Partial or Stuck
    track,             \* history: what each identifier was issued for
    drained,           \* history: responses handled by the last get_response
    lastOp,            \* history: the outcome of the call just made
    draw               \* create_message's local `id` while its loop runs, or 0

vars == <<all_ids, current_ids, newest_responses, files, requests_queue,
          response_queue, alive, pending, torn, writing, track, drained,
          lastOp, draw>>

(* ---------------------------- pure helpers ---------------------------- *)

\* `filename in self.files`
HasFile(fs, f) == \E i \in 1..Len(fs) : fs[i].name = f

\* self.files[f]
DataOf(fs, f) == fs[CHOOSE i \in 1..Len(fs) : fs[i].name = f].data

\* self.files[filename] = current_state: a dict keeps the position of a key
\* that is already present and appends a new key.
SetFile(fs, f, d) ==
    IF HasFile(fs, f)
    THEN [i \in 1..Len(fs) |->
             IF fs[i].name = f THEN [name |-> f, data |-> d] ELSE fs[i]]
    ELSE Append(fs, [name |-> f, data |-> d])

\* self.all_ids is only ever appended to, searched and removed from: the
\* order of the list is never read, so the list is kept as a bag.
\* list.append(x)
ListAppend(ids, x) == ids (+) SetToBag({x})

\* `x in list`
ListHas(ids, x) == BagIn(x, ids)

\* list.remove(x): removes one occurrence of x (the caller has checked that
\* there is one; without one Python raises ValueError).
ListRemove(ids, x) == ids (-) SetToBag({x})

\* The Ping, Request and Notification dicts of create_message. The request
\* fields expected_keywords, current_word, language and text_range are
\* passed through unread by the client and are left out.
Message(id, type, command, file, contents, remove) ==
    [id |-> id, type |-> type, command |-> command, file |-> file,
     contents |-> contents, remove |-> remove]

RedrawsNever(ids, id) == FALSE

\* `while id in self.all_ids`: the condition of create_message's loop.
Redraws(ids, id) == ListHas(ids, id)

\* The values the rejection-sampling loop of create_message can return:
\* randint(1, id_max), redrawn while the draw is in all_ids. With every
\* identifier outstanding the set is empty: the loop does not return.
NewIdsNoRetry(ids) == Ids
NewIds(ids) == {i \in Ids : ~ListHas(ids, i)}

(* ------------------- the client object as a record --------------------- *)

\* The fields of the IPC object that its methods read and write, with the
\* exception raised (if any), the value returned and a log of
\* parse_response's decisions. A method is an operator from such a record to
\* the set of records it can end in (one per outcome of the random draws
\* and of what the worker does while the call runs). `pending` is the
\* worker's: the messages it has taken and not answered.
Self ==
    [all_ids |-> all_ids, current_ids |-> current_ids,
     newest_responses |-> newest_responses, files |-> files,
     requests_queue |-> requests_queue, response_queue |-> response_queue,
     alive |-> alive, torn |-> torn, writing |-> writing,
     pending |-> pending,
     raised |-> NoError, ret |-> None, log |-> <<>>]

\* send_message
send_message(st, message) ==
    [st EXCEPT !.requests_queue = Append(@, message)]

\* create_message, lines 67-98: the body after the loop has returned `id`.
stamp_message(st, id, type, command, file, contents, remove) ==
    LET s1 == [st EXCEPT !.all_ids = ListAppend(@, id)]
    IN  CASE type = "ping" ->
               send_message(s1, Message(id, "ping", "", "", "", FALSE))
          [] type = "request" ->
               send_message([s1 EXCEPT !.current_ids[command] = id],
                            Message(id, "request", command, file, "", FALSE))
          [] type = "notification" ->
               send_message(s1, Message(id, "notification", "", file,
                                        contents, remove))
          [] OTHER ->
               send_message(s1, Message(id, "ping", "", "", "", FALSE))

\* create_message(type, **kwargs)
create_message(st, type, command, file, contents, remove) ==
    {stamp_message(st, id, type, command, file, contents, remove) :
        id \in NewIds(st.all_ids)}

\* kill_IPC: Process.kill() sends SIGKILL and returns. The process runs no
\* further, but for a write to the pipe it is in the middle of, which it
\* can still finish; is_alive() is True until it has exited (WorkerKilled).
kill_IPC(st) == [st EXCEPT !.torn = TRUE]

request_NoFileCheck(st, command, file) ==
    IF command \notin COMMANDS
    THEN {[kill_IPC(st) EXCEPT !.raised = RequestInvalidCommand]}
    ELSE create_message(st, "request", command, file, "", FALSE)

request_NoKill(st, command, file) ==
    IF command \notin COMMANDS
    THEN {[kill_IPC(st) EXCEPT !.raised = RequestInvalidCommand]}
    ELSE IF ~HasFile(st.files, file)
    THEN {[st EXCEPT !.raised = RequestUnknownFile]}
    ELSE create_message(st, "request", command, file, "", FALSE)

\* request(command, file, ...)
request(st, command, file) ==
    IF command \notin COMMANDS
    THEN {[kill_IPC(st) EXCEPT !.raised = RequestInvalidCommand]}
    ELSE IF ~HasFile(st.files, file)
    THEN {[kill_IPC(st) EXCEPT !.raised = RequestUnknownFile]}
    ELSE create_message(st, "request", command, file, "", FALSE)

cancel_request_DropsResponse(st, command) ==
    IF command \notin COMMANDS
    THEN {[kill_IPC(st) EXCEPT !.raised = CancelInvalidCommand]}
    ELSE {[st EXCEPT !.current_ids[command] = 0,
                     !.newest_responses[command] = None]}

cancel_request_NoClear(st, command) ==
    IF command \notin COMMANDS
    THEN {[kill_IPC(st) EXCEPT !.raised = CancelInvalidCommand]}
    ELSE {st}

\* cancel_request(command)
cancel_request(st, command) ==
    IF command \notin COMMANDS
    THEN {[kill_IPC(st) EXCEPT !.raised = CancelInvalidCommand]}
    ELSE {[st EXCEPT !.current_ids[command] = 0]}

\* update_file(filename, current_state)
update_file(st, filename, current_state) ==
    create_message([st EXCEPT !.files = SetFile(@, filename, current_state)],
                   "notification", "", filename, current_state, FALSE)

\* remove_file(filename): the notification is sent with contents "" and
\* self.files is left as it is.
remove_file(st, filename) ==
    IF ~HasFile(st.files, filename)
    THEN {[kill_IPC(st) EXCEPT !.raised = RemoveUnknownFile]}
    ELSE create_message(st, "notification", "", filename, "", TRUE)

\* The loop of create_server over files_copy: every state it can end in.
RECURSIVE replay(_, _)
replay(st, files_copy) ==
    IF files_copy = <<>>
    THEN {st}
    ELSE UNION {replay(s1, Tail(files_copy)) :
                  s1 \in update_file(st, Head(files_copy).name,
                                     Head(files_copy).data)}

create_server_NoReplay(st) ==
    {[st EXCEPT !.alive = TRUE, !.torn = FALSE, !.files = <<>>]}

create_server_ResetsIds(st) ==
    replay([st EXCEPT !.alive = TRUE, !.torn = FALSE, !.files = <<>>,
                      !.current_ids = [c \in COMMANDS |-> 0]], st.files)

create_server_ResetsAllIds(st) ==
    replay([st EXCEPT !.alive = TRUE, !.torn = FALSE, !.files = <<>>,
                      !.all_ids = EmptyBag], st.files)

\* create_server: a new process on the queues made in __init__, then the
\* mirror is emptied and rebuilt by update_file.
create_server(st) ==
    replay([st EXCEPT !.alive = TRUE, !.torn = FALSE, !.files = <<>>],
           st.files)

\* check_server
check_server(st) ==
    IF ~st.alive THEN create_server(st) ELSE {st}

ping_CheckServer(st) ==
    UNION {create_message(s1, "ping", "", "", "", FALSE) :
              s1 \in check_server(st)}

\* ping
ping(st) == create_message(st, "ping", "", "", "", FALSE)

\* An entry of the log: parse_response removed the identifier of `res` from
\* all_ids, then stored `res` or not, over a response still in the slot or
\* not.
Handled(res, stored, over) ==
    [id |-> res.id, command |-> res.command, stored |-> stored, over |-> over]

parse_response_KeepsLive(st, res) ==
    IF ~ListHas(st.all_ids, res.id)
    THEN [st EXCEPT !.raised = ValueError]
    ELSE LET s1 == [st EXCEPT !.all_ids = ListRemove(@, res.id)]
         IN  IF res.command = NoCommand
             THEN [s1 EXCEPT !.log = Append(@, Handled(res, FALSE, FALSE))]
             ELSE IF res.id # s1.current_ids[res.command]
             THEN [s1 EXCEPT !.log = Append(@, Handled(res, FALSE, FALSE))]
             ELSE [s1 EXCEPT
                     !.newest_responses[res.command] = res,
                     !.log = Append(@, Handled(res, TRUE,
                                 s1.newest_responses[res.command] # None))]

parse_response_NoIdCheck(st, res) ==
    IF ~ListHas(st.all_ids, res.id)
    THEN [st EXCEPT !.raised = ValueError]
    ELSE LET s1 == [st EXCEPT !.all_ids = ListRemove(@, res.id)]
         IN  IF res.command = NoCommand
             THEN [s1 EXCEPT !.log = Append(@, Handled(res, FALSE, FALSE))]
             ELSE [s1 EXCEPT
                     !.current_ids[res.command] = 0,
                     !.newest_responses[res.command] = res,
                     !.log = Append(@, Handled(res, TRUE,
                                 s1.newest_responses[res.command] # None))]

parse_response_StaleKept(st, res) ==
    IF res.command # NoCommand /\ res.id # st.current_ids[res.command]
    THEN [st EXCEPT !.log = Append(@, Handled(res, FALSE, FALSE))]
    ELSE LET s1 == [st EXCEPT !.all_ids = ListRemove(@, res.id)]
         IN  IF res.command = NoCommand
             THEN [s1 EXCEPT !.log = Append(@, Handled(res, FALSE, FALSE))]
             ELSE [s1 EXCEPT
                     !.current_ids[res.command] = 0,
                     !.newest_responses[res.command] = res,
                     !.log = Append(@, Handled(res, TRUE,
                                 s1.newest_responses[res.command] # None))]

\* parse_response
parse_response(st, res) ==
    IF ~ListHas(st.all_ids, res.id)
    THEN [st EXCEPT !.raised = ValueError]
    ELSE LET s1 == [st EXCEPT !.all_ids = ListRemove(@, res.id)]
         IN  IF res.command = NoCommand
             THEN [s1 EXCEPT !.log = Append(@, Handled(res, FALSE, FALSE))]
             ELSE IF res.id # s1.current_ids[res.command]
             THEN [s1 EXCEPT !.log = Append(@, Handled(res, FALSE, FALSE))]
             ELSE [s1 EXCEPT
                     !.current_ids[res.command] = 0,
                     !.newest_responses[res.command] = res,
                     !.log = Append(@, Handled(res, TRUE,
                                 s1.newest_responses[res.command] # None))]

\* The worker process is executing: started, not dead, not sent SIGKILL.
Running(st) == st.alive /\ ~st.torn

\* The last response of the response queue: written in full; written in
\* full by a process that was killed before it released the queue's write
\* lock; written in part by a process that goes on writing as the client
\* reads; written in part by a process that has died. After the last two
\* no process can write to the queue again: the lock is never released.
Whole == "whole"
Held == "held"
Partial == "partial"
Stuck == "stuck"

\* The response the worker emits for a message: the same identifier, and
\* the command for a request.
ResponseTo(m) ==
    [id |-> m.id,
     command |-> IF m.type = "request" THEN m.command ELSE NoCommand]

\* The worker takes the next message from the requests queue.
worker_receive(st) ==
    IF Running(st) /\ st.requests_queue # <<>>
    THEN {[st EXCEPT !.requests_queue = Tail(@),
                     !.pending = @ \cup {Head(st.requests_queue)}]}
    ELSE {}

\* The worker answers a message it holds, in any order, with a response
\* that fits in the pipe. A message it never answers (at most one response
\* is its contract) stays in `pending`. It writes one response at a time.
worker_respond(st) ==
    IF Running(st) /\ st.writing = Whole
    THEN {[st EXCEPT !.pending = @ \ {m},
                     !.response_queue = Append(@, ResponseTo(m))] :
             m \in st.pending}
    ELSE {}

\* The worker answers a message with a response larger than the pipe's
\* buffer: it has written a part of it and goes on when the client reads.
worker_write(st) == {[s1 EXCEPT !.writing = Partial] : s1 \in worker_respond(st)}

\* The worker takes the first k messages of the requests queue.
RECURSIVE worker_receives(_, _)
worker_receives(st, k) ==
    IF k = 0
    THEN {st}
    ELSE UNION {worker_receives(s1, k - 1) : s1 \in worker_receive(st)}

\* The worker puts one more response on the queue: the answer to a message
\* it holds, or to a message of the requests queue, which it takes with
\* those before it.
Emitted(st) ==
    worker_respond(st)
       \cup UNION {{s2 \in UNION {worker_respond(s1) :
                                     s1 \in worker_receives(st, k)} :
                       s2.response_queue[Len(s2.response_queue)].id
                          = st.requests_queue[k].id} :
                     k \in 1..Len(st.requests_queue)}

\* The response at the head of the queue is one that get() never returns:
\* a part of it is in the pipe and its writer is dead.
Blocks(st) ==
    /\ Len(st.response_queue) = 1
    /\ st.writing = Stuck \/ (st.writing = Partial /\ ~st.alive)

\* The response at the head of the queue is partly written by a process
\* that is not dead: get() waits for the rest.
Waits(st) ==
    /\ Len(st.response_queue) = 1
    /\ st.writing = Partial
    /\ st.alive

\* response_queue.get() when the response at the head is whole, or is made
\* whole by its writer while get() waits. A writer that was sent SIGKILL
\* finishes the write and dies with the lock.
get(st) ==
    [st EXCEPT !.response_queue = Tail(@),
               !.writing = IF Waits(st)
                           THEN IF st.torn THEN Held ELSE Whole
                           ELSE @]

\* response_queue.get() waits for ever: the writer of the response at the
\* head is dead, or dies before it has written the rest.
hang(st) ==
    IF Blocks(st)
    THEN [st EXCEPT !.raised = NoReturn]
    ELSE [st EXCEPT !.raised = NoReturn, !.writing = Stuck,
                    !.alive = FALSE, !.pending = {}]

\* check_responses: the states it can end in. empty() sees what the worker
\* has put in the queue by then, also during the call: with the queue empty
\* the loop ends, or the worker has emitted one more response and the loop
\* goes on. empty() is False as soon as a part of a response is in the
\* pipe, and get() then waits until the whole response is: the call does
\* not return (raised = NoReturn) when the writer is dead or dies before it
\* has written the rest. A ValueError of parse_response ends the call.
RECURSIVE check_responses(_)
check_responses(st) ==
    IF st.raised # NoError
    THEN {st}
    ELSE IF st.response_queue = <<>>
    THEN LET more == Emitted(st)
         IN  {st}
                \cup UNION {check_responses(s1) : s1 \in more}
                \cup {hang([s1 EXCEPT !.writing = Partial]) : s1 \in more}
    ELSE (IF Blocks(st) \/ Waits(st) THEN {hang(st)} ELSE {})
            \cup (IF Blocks(st)
                  THEN {}
                  ELSE check_responses(
                           parse_response(get(st), Head(st.response_queue))))

get_response_ReadsFirst(st, command) ==
    IF command \notin COMMANDS
    THEN {[kill_IPC(st) EXCEPT !.raised = GetInvalidCommand]}
    ELSE {IF s1.raised # NoError
          THEN s1
          ELSE [s1 EXCEPT !.ret = st.newest_responses[command],
                          !.newest_responses[command] = None] :
             s1 \in check_responses(st)}

get_response_NoClear(st, command) ==
    IF command \notin COMMANDS
    THEN {[kill_IPC(st) EXCEPT !.raised = GetInvalidCommand]}
    ELSE {IF s1.raised # NoError
          THEN s1
          ELSE [s1 EXCEPT !.ret = s1.newest_responses[command]] :
             s1 \in check_responses(st)}

\* get_response(command)
get_response(st, command) ==
    IF command \notin COMMANDS
    THEN {[kill_IPC(st) EXCEPT !.raised = GetInvalidCommand]}
    ELSE {IF s1.raised # NoError
          THEN s1
          ELSE [s1 EXCEPT !.ret = s1.newest_responses[command],
                          !.newest_responses[command] = None] :
             s1 \in check_responses(st)}

(* ------------------------------ history ------------------------------- *)

\* What an identifier was issued for, and what became of its request.
Free == [kind |-> "free", cmd |-> ""]
Ack == [kind |-> "ack", cmd |-> ""]
Live(c) == [kind |-> "live", cmd |-> c]
Superseded(c) == [kind |-> "superseded", cmd |-> c]
Cancelled(c) == [kind |-> "cancelled", cmd |-> c]

\* The outcome of the call just made: the exception raised and the value
\* returned. Idle: nothing raised, nothing returned, or a worker's step.
Outcome(st) == [raised |-> st.raised, ret |-> st.ret]
Idle == [raised |-> NoError, ret |-> None]

\* The identifiers a call appended to all_ids.
Issued(st) == BagToSet(st.all_ids (-) all_ids)

(* ------------------------------ actions ------------------------------- *)

\* The fields of the object after a call or a step of the worker, and the
\* worker process with them: a process that was killed, or has died, will
\* answer none of the messages it had taken.
Install(st) ==
    /\ all_ids' = st.all_ids
    /\ current_ids' = st.current_ids
    /\ newest_responses' = st.newest_responses
    /\ files' = st.files
    /\ requests_queue' = st.requests_queue
    /\ response_queue' = st.response_queue
    /\ alive' = st.alive
    /\ torn' = st.torn
    /\ writing' = st.writing
    /\ pending' = IF Running(st) THEN st.pending ELSE {}

\* The client is not inside a call that does not return.
Returned == lastOp.raised # NoReturn

\* A step of the worker: the client's last call is what it was.
Step(st) ==
    /\ Install(st)
    /\ drained' = {}
    /\ lastOp' = IF Returned THEN Idle ELSE lastOp
    /\ UNCHANGED <<track, draw>>

\* Construction: __init__ ends with create_server on an empty mirror.
Init ==
    /\ all_ids = EmptyBag
    /\ current_ids = [c \in COMMANDS |-> 0]
    /\ newest_responses = [c \in COMMANDS |-> None]
    /\ files = <<>>
    /\ requests_queue = <<>>
    /\ response_queue = <<>>
    /\ alive = TRUE
    /\ pending = {}
    /\ torn = FALSE
    /\ writing = Whole
    /\ track = [i \in Ids |-> Free]
    /\ drained = {}
    /\ lastOp = Idle
    /\ draw = 0

Ping ==
    /\ Returned
    /\ \E st \in ping(Self) :
        /\ Install(st)
        /\ track' = [i \in Ids |-> IF i \in Issued(st) THEN Ack ELSE track[i]]
        /\ drained' = {}
        /\ lastOp' = Outcome(st)
        /\ UNCHANGED draw

Request(command, file) ==
    /\ Returned
    /\ \E st \in request(Self, command, file) :
        /\ Install(st)
        /\ track' = IF st.raised # NoError
                    THEN track
                    ELSE [i \in Ids |->
                            IF i \in Issued(st) THEN Live(command)
                            ELSE IF track[i] = Live(command)
                                 THEN Superseded(command)
                                 ELSE track[i]]
        /\ drained' = {}
        /\ lastOp' = Outcome(st)
        /\ UNCHANGED draw

CancelRequest(command) ==
    /\ Returned
    /\ \E st \in cancel_request(Self, command) :
        /\ Install(st)
        /\ track' = IF st.raised # NoError
                    THEN track
                    ELSE [i \in Ids |->
                            IF track[i] = Live(command)
                            THEN Cancelled(command)
                            ELSE track[i]]
        /\ drained' = {}
        /\ lastOp' = Outcome(st)
        /\ UNCHANGED draw

GetResponse(command) ==
    /\ Returned
    /\ \E st \in get_response(Self, command) :
        /\ Install(st)
        /\ track' = [i \in Ids |->
                        IF \E k \in 1..Len(st.log) : st.log[k].id = i
                        THEN Free ELSE track[i]]
        /\ drained' = {[id |-> st.log[k].id, command |-> st.log[k].command,
                        stored |-> st.log[k].stored, over |-> st.log[k].over,
                        was |-> track[st.log[k].id].kind] :
                          k \in 1..Len(st.log)}
        /\ lastOp' = Outcome(st)
        /\ UNCHANGED draw

UpdateFile(filename, current_state) ==
    /\ Returned
    /\ \E st \in update_file(Self, filename, current_state) :
        /\ Install(st)
        /\ track' = [i \in Ids |-> IF i \in Issued(st) THEN Ack ELSE track[i]]
        /\ drained' = {}
        /\ lastOp' = Outcome(st)
        /\ UNCHANGED draw

RemoveFile(filename) ==
    /\ Returned
    /\ \E st \in remove_file(Self, filename) :
        /\ Install(st)
        /\ track' = [i \in Ids |-> IF i \in Issued(st) THEN Ack ELSE track[i]]
        /\ drained' = {}
        /\ lastOp' = Outcome(st)
        /\ UNCHANGED draw

KillIPC ==
    /\ Returned
    /\ Install(kill_IPC(Self))
    /\ drained' = {}
    /\ lastOp' = Outcome(Self)
    /\ UNCHANGED draw
    /\ UNCHANGED track

\* check_server is internal API: no method of the class calls it, a caller
\* that wants the worker respawned has to.
CheckServer ==
    /\ Returned
    /\ \E st \in check_server(Self) :
        /\ Install(st)
        /\ track' = [i \in Ids |-> IF i \in Issued(st) THEN Ack ELSE track[i]]
        /\ drained' = {}
        /\ lastOp' = Outcome(st)
        /\ UNCHANGED draw

WorkerReceive == \E st \in worker_receive(Self) : Step(st)

WorkerRespond == \E st \in worker_respond(Self) : Step(st)

WorkerWrite == \E st \in worker_write(Self) : Step(st)

\* The worker process dies on its own: what it was writing stays partly
\* written.
WorkerCrash ==
    /\ Running(Self)
    /\ Step([Self EXCEPT !.alive = FALSE,
                         !.writing = IF @ = Partial THEN Stuck ELSE @])

\* The process that was sent SIGKILL has exited: is_alive() is now False.
WorkerKilled ==
    /\ alive
    /\ torn
    /\ Step([Self EXCEPT !.alive = FALSE,
                         !.writing = IF @ = Partial THEN Stuck ELSE @])

\* create_message, line 64, in a call of ping: the first draw of randint.
CreateMessageDraw ==
    /\ Returned
    /\ draw = 0
    /\ draw' \in Ids
    /\ drained' = {}
    /\ lastOp' = Idle
    /\ UNCHANGED <<all_ids, current_ids, newest_responses, files,
                   requests_queue, response_queue, alive, pending, torn,
                   writing, track>>

\* create_message, lines 65-66: the draw is in all_ids, randint draws k.
CreateMessageRedraw(k) ==
    /\ draw # 0
    /\ Redraws(all_ids, draw)
    /\ draw' = k
    /\ UNCHANGED <<all_ids, current_ids, newest_responses, files,
                   requests_queue, response_queue, alive, pending, torn,
                   writing, track, drained, lastOp>>

\* create_message, lines 65 and 67-72: the draw is not in all_ids, the loop
\* is left, the identifier appended and the ping sent; ping returns.
CreateMessageAppend ==
    /\ draw # 0
    /\ ~Redraws(all_ids, draw)
    /\ LET st == stamp_message(Self, draw, "ping", "", "", "", FALSE)
       IN  /\ Install(st)
           /\ track' = [i \in Ids |->
                           IF i \in Issued(st) THEN Ack ELSE track[i]]
           /\ lastOp' = Outcome(st)
    /\ drained' = {}
    /\ draw' = 0

\* The public API, called with commands from `cmds` and updates from `upds`.
Facade(cmds, upds) ==
    \/ Ping
    \/ \E c \in cmds, f \in FileInputs : Request(c, f)
    \/ \E c \in cmds : CancelRequest(c)
    \/ \E c \in cmds : GetResponse(c)
    \/ \E u \in upds : UpdateFile(u[1], u[2])
    \/ \E f \in FileInputs : RemoveFile(f)
    \/ KillIPC

\* The worker's own steps.
Worker ==
    \/ WorkerReceive
    \/ WorkerRespond
    \/ WorkerWrite
    \/ WorkerCrash

\* Every call and step, on one command of COMMANDS and a bad one, and one
\* file.
Next ==
    \/ Facade(FewCommandInputs, FewUpdateInputs)
    \/ CheckServer
    \/ Worker
    \/ WorkerKilled

Spec == Init /\ [][Next]_vars

\* Every call and step, the file mirror's inputs in full.
NextMirror ==
    \/ Facade(FewCommandInputs, UpdateInputs)
    \/ CheckServer
    \/ Worker
    \/ WorkerKilled

SpecMirror == Init /\ [][NextMirror]_vars

\* The public API alone: no caller reaches into check_server.
NextFacade ==
    \/ Facade(FewCommandInputs, UpdateInputs)
    \/ Worker
    \/ WorkerKilled

SpecFacade == Init /\ [][NextFacade]_vars

\* Two commands of COMMANDS, for the calls that raise nothing.
GoodCommandInputs == {"autocomplete", "highlight"}

\* ping with the loop of create_message run draw by draw, get_response
\* between the calls, and the worker. randint draws every value of
\* 1..id_max again and again: a draw that can be made is made at last.
NextAllocator ==
    \/ CreateMessageDraw
    \/ \E k \in Ids : CreateMessageRedraw(k)
    \/ CreateMessageAppend
    \/ (draw = 0 /\ GetResponse("autocomplete"))
    \/ Worker

SpecAllocator ==
    /\ Init
    /\ [][NextAllocator]_vars
    /\ \A k \in Ids : WF_vars(CreateMessageRedraw(k))
    /\ WF_vars(CreateMessageAppend)

\* Requests, cancellations and polls of two commands of COMMANDS, the file
\* the requests name, and the worker.
NextSlots ==
    \/ \E c \in GoodCommandInputs, f \in FileInputs : Request(c, f)
    \/ \E c \in GoodCommandInputs : CancelRequest(c)
    \/ \E c \in GoodCommandInputs : GetResponse(c)
    \/ \E u \in FewUpdateInputs : UpdateFile(u[1], u[2])
    \/ Worker
    \/ WorkerKilled

SpecSlots == Init /\ [][NextSlots]_vars

\* The worker answers the message bearing identifier i.
WorkerRespondTo(i) ==
    /\ WorkerRespond \/ WorkerWrite
    /\ response_queue'[Len(response_queue')].id = i

\* Requests and polls of one command, never cancelled and made when no
\* request of the command is live, polls of another, the file the requests
\* name, registered once, and the worker. The worker takes every
\* message and answers every message it holds unless it dies, and the
\* caller keeps polling the command: a poll that has something to handle or
\* to return is made at last.
NextDelivery ==
    \/ \E f \in FileInputs :
          current_ids["autocomplete"] = 0 /\ Request("autocomplete", f)
    \/ \E c \in GoodCommandInputs : GetResponse(c)
    \/ \E u \in FewUpdateInputs :
          ~HasFile(files, u[1]) /\ UpdateFile(u[1], u[2])
    \/ Worker
    \/ WorkerKilled

SpecDelivery ==
    /\ Init
    /\ [][NextDelivery]_vars
    /\ WF_vars(WorkerReceive)
    /\ \A i \in Ids : SF_vars(WorkerRespondTo(i))
    /\ WF_vars(GetResponse("autocomplete"))

(* ----------------------------- properties ----------------------------- *)
\* The properties below are state predicates. Where one speaks of a call, it
\* is about every outcome of the method applied to the object in the
\* current state; where one speaks of what a call did, it reads the history
\* variables of the state the call left.

\* The outcomes, in the current state, of the calls that send a message.
Sends ==
    UNION ({ping(Self)}
           \cup {request(Self, c, f) : c \in COMMANDS, f \in FileNames}
           \cup {update_file(Self, u[1], u[2]) : u \in UpdateInputs}
           \cup {remove_file(Self, f) : f \in FileNames})

Last(s) == s[Len(s)]

\* The responses a call has handled, in the order it handled them: those
\* that were in the response queue, then those the worker emitted while the
\* call ran.
HandledBy(st) ==
    [k \in 1..Len(st.log) |->
        [id |-> st.log[k].id, command |-> st.log[k].command]]

\* The positions in the sequence q of responses of the answers to the
\* request that is live for command c.
LiveAnswers(q, c) ==
    {k \in 1..Len(q) : q[k].command = c /\ track[q[k].id] = Live(c)}

\* C1 (supersession): the code's live identifier of a command is the
\* identifier of its latest request that was neither cancelled nor answered,
\* so at most one identifier is live per command; a response to a
\* superseded request is removed from all_ids and never stored;
\* get_response(c) returns the answer to the live request when it is among
\* the responses it handles and the buffered response otherwise, and a
\* second get_response(c) right after it, if it returns, returns None
\* unless it handles the answer to the live request.
C1_Supersession ==
    /\ \A c \in COMMANDS : \A i \in Ids :
          (track[i] = Live(c)) <=> (current_ids[c] = i)
    /\ \A c \in COMMANDS :
          Cardinality({i \in Ids : track[i] = Live(c)}) <= 1
    /\ \A d \in drained :
          d.was = "superseded" =>
             /\ ~d.stored
             /\ ~ListHas(all_ids, d.id)
    /\ \A c \in COMMANDS : \A st \in get_response(Self, c) :
          st.raised = NoError =>
             LET q == HandledBy(st)
             IN  /\ st.ret = IF LiveAnswers(q, c) # {}
                             THEN q[CHOOSE k \in LiveAnswers(q, c) : TRUE]
                             ELSE newest_responses[c]
                 /\ \A st2 \in get_response(st, c) :
                       \/ st2.raised = NoReturn
                       \/ st2.ret = None
                       \/ /\ track[st2.ret.id] = Live(c)
                          /\ \E k \in (Len(q) + 1)..Len(st2.log) :
                                st2.log[k].id = st2.ret.id

\* A get_response that dropped the answer to a superseded request and
\* returned the answer to the request that superseded it.
C1_Witness ==
    \E d1, d2 \in drained :
        /\ d1.was = "superseded" /\ ~d1.stored
        /\ d2.was = "live" /\ d2.stored /\ d2.command = d1.command
        /\ lastOp.ret = [id |-> d2.id, command |-> d2.command]

\* C2 (cancellation drops late answers): a response to a cancelled request
\* is removed from all_ids and is not stored, whatever was called since the
\* cancellation; and right after cancel_request(c) the answer to the request
\* that was live for c is removed from all_ids and leaves the buffers as
\* they are.
C2_CancelDropsLateAnswers ==
    /\ \A d \in drained :
          d.was = "cancelled" =>
             /\ ~d.stored
             /\ ~ListHas(all_ids, d.id)
    /\ \A c \in COMMANDS : \A st \in cancel_request(Self, c) :
          current_ids[c] # 0 =>
             LET res == [id |-> current_ids[c], command |-> c]
                 s1 == parse_response(st, res)
             IN  /\ s1.raised = NoError
                 /\ ~ListHas(s1.all_ids, res.id)
                 /\ s1.newest_responses = newest_responses
                 /\ s1.current_ids[c] = 0

\* A get_response that handled the answer to a cancelled request.
C2_Witness ==
    \E d \in drained :
        /\ d.was = "cancelled" /\ ~d.stored
        /\ ~ListHas(all_ids, d.id)

\* C3 (identifier uniqueness): all_ids holds pairwise distinct values of
\* 1..id_max, and every call that sends a message appends one identifier of
\* 1..id_max that was not outstanding (so never 0).
C3_IdentifierUniqueness ==
    /\ BagToSet(all_ids) \subseteq 1..id_max
    /\ \A i \in BagToSet(all_ids) : CopiesIn(i, all_ids) = 1
    /\ \A st \in Sends :
          st.raised = NoError =>
             LET id == Last(st.requests_queue).id
             IN  /\ st.all_ids = ListAppend(all_ids, id)
                 /\ id \in 1..id_max
                 /\ id # 0
                 /\ ~ListHas(all_ids, id)

\* id_max allocations with no response observed in between: a ping or
\* notification, and a request still live, all outstanding.
C3_Witness ==
    /\ BagCardinality(all_ids) = id_max
    /\ BagToSet(all_ids) = 1..id_max
    /\ \E i \in Ids : track[i].kind = "live"
    /\ \E i \in Ids : track[i].kind = "ack"

\* The positions in the sequence q of responses of those parse_response
\* stores for command c: they bear c and the live identifier of c.
Accepted(q, c) ==
    {k \in 1..Len(q) : q[k].command = c /\ q[k].id = current_ids[c]}

\* What the slot of command c holds once a drain has handled the responses
\* of q.
AfterDrain(q, c) ==
    IF Accepted(q, c) # {}
    THEN q[CHOOSE k \in Accepted(q, c) : \A j \in Accepted(q, c) : k <= j]
    ELSE newest_responses[c]

\* C4 (single-slot buffer): a slot holds None or one response for its
\* command; a drain replaces what a slot holds by the response it accepts
\* for that command; get_response(c) returns what the slot of c holds after
\* the drain and leaves it None, so a second get_response(c) right after
\* it, with no response arriving in between or during it, returns None.
C4_SingleSlotBuffer ==
    /\ \A c \in COMMANDS :
          \/ newest_responses[c] = None
          \/ newest_responses[c].command = c /\ newest_responses[c].id \in Ids
    /\ \A c \in COMMANDS : \A st \in get_response(Self, c) :
          st.raised = NoError =>
             LET q == HandledBy(st)
             IN  /\ st.ret = AfterDrain(q, c)
                 /\ st.newest_responses[c] = None
                 /\ \A c2 \in COMMANDS \ {c} :
                       st.newest_responses[c2] = AfterDrain(q, c2)
                 /\ \A st2 \in get_response([st EXCEPT
                                                 !.requests_queue = <<>>,
                                                 !.pending = {}], c) :
                       st2.raised = NoError /\ st2.ret = None
    /\ \A d \in drained :
          d.stored =>
             \/ lastOp.ret = [id |-> d.id, command |-> d.command]
             \/ newest_responses[d.command] = [id |-> d.id, command |-> d.command]

\* A get_response(c) that accepted a response for c over one that was still
\* buffered, and returned the one it accepted.
C4_Witness ==
    \E d \in drained :
        /\ d.stored /\ d.over
        /\ lastOp.ret = [id |-> d.id, command |-> d.command]
        /\ newest_responses[d.command] = None

\* The identifiers borne by the responses of a queue, as a bag.
IdsOf(q) ==
    LET S == {q[k].id : k \in 1..Len(q)}
    IN  [i \in S |-> Cardinality({k \in 1..Len(q) : q[k].id = i})]

\* C5 (outstanding-set accounting): a call that sends a message appends
\* that one message to the requests queue and its identifier, and nothing
\* else, to all_ids; parse_response removes the identifier of the response,
\* which is outstanding, and nothing else; a drain removes one occurrence of
\* the identifier of every response it handles, stored or not: it handles
\* those in the queue, in their order, and then answers the worker emits
\* during the call to messages it held or takes; it raises nothing, and
\* leaves the queue empty when it returns.
C5_OutstandingAccounting ==
    /\ \A st \in Sends :
          st.raised = NoError =>
             /\ Len(st.requests_queue) = Len(requests_queue) + 1
             /\ SubSeq(st.requests_queue, 1, Len(requests_queue))
                   = requests_queue
             /\ st.all_ids
                   = all_ids (+) SetToBag({Last(st.requests_queue).id})
    /\ \A k \in 1..Len(response_queue) :
          LET s1 == parse_response(Self, response_queue[k])
          IN  /\ ListHas(all_ids, response_queue[k].id)
              /\ s1.raised = NoError
              /\ s1.all_ids (+) SetToBag({response_queue[k].id}) = all_ids
    /\ \A c \in COMMANDS : \A st \in get_response(Self, c) :
          LET q == HandledBy(st) \o st.response_queue
          IN  /\ st.raised \in {NoError, NoReturn}
              /\ st.raised = NoError => st.response_queue = <<>>
              /\ st.all_ids (+) IdsOf(HandledBy(st)) = all_ids
              /\ SubSeq(q, 1, Len(response_queue)) = response_queue
              /\ \A k \in (Len(response_queue) + 1)..Len(q) :
                    \/ \E m \in pending \ st.pending : q[k] = ResponseTo(m)
                    \/ \E j \in 1..(Len(requests_queue)
                                       - Len(st.requests_queue)) :
                          q[k] = ResponseTo(requests_queue[j])
    /\ \A d \in drained : ~ListHas(all_ids, d.id) /\ track[d.id] = Free

\* A drain that handled an acknowledgement and the answer to a request that
\* was superseded or cancelled.
C5_Witness ==
    \E d1, d2 \in drained :
        /\ d1.was = "ack" /\ d1.command = NoCommand
        /\ d2.was \in {"superseded", "cancelled"} /\ ~d2.stored
        /\ ~ListHas(all_ids, d1.id) /\ ~ListHas(all_ids, d2.id)

\* The contents update_file is called with.
DataInputs == {u[2] : u \in UpdateInputs}

\* C6 (file gating): request with a valid command raises the unknown-file
\* error exactly when the file is not in self.files, and then allocates
\* nothing and sends nothing; otherwise it sends the request. update_file
\* never raises, sets the entry of the file, leaves the other entries alone
\* and sends one upsert notification; the same request made after it does
\* not raise.
C6_FileGating ==
    /\ \A c \in COMMANDS, f \in FileNames : \A st \in request(Self, c, f) :
          /\ (st.raised = RequestUnknownFile) <=> ~HasFile(files, f)
          /\ (st.raised = NoError) <=> HasFile(files, f)
          /\ st.raised = RequestUnknownFile =>
                /\ st.all_ids = all_ids
                /\ st.requests_queue = requests_queue
                /\ st.current_ids = current_ids
          /\ st.raised = NoError =>
                /\ Len(st.requests_queue) = Len(requests_queue) + 1
                /\ Last(st.requests_queue).type = "request"
                /\ Last(st.requests_queue).command = c
                /\ Last(st.requests_queue).file = f
    /\ \A c \in COMMANDS, f \in FileNames :
          (HasFile(files, f) /\ NewIds(all_ids) # {})
             => request(Self, c, f) # {}
    /\ \A f \in FileNames, d \in DataInputs :
          /\ NewIds(all_ids) # {} => update_file(Self, f, d) # {}
          /\ \A st \in update_file(Self, f, d) :
                /\ st.raised = NoError
                /\ HasFile(st.files, f) /\ DataOf(st.files, f) = d
                /\ \A g \in FileNames \ {f} :
                      /\ HasFile(st.files, g) <=> HasFile(files, g)
                      /\ HasFile(files, g)
                            => DataOf(st.files, g) = DataOf(files, g)
                /\ Len(st.requests_queue) = Len(requests_queue) + 1
                /\ Last(st.requests_queue) =
                      Message(Last(st.requests_queue).id, "notification", "",
                              f, d, FALSE)
                /\ st.alive = alive
                /\ \A c \in COMMANDS : \A st2 \in request(st, c, f) :
                      st2.raised = NoError

\* A request that was sent for a file that update_file has put in the
\* mirror.
C6_Witness ==
    /\ HasFile(files, "a.txt") /\ DataOf(files, "a.txt") = "2"
    /\ requests_queue # <<>>
    /\ Last(requests_queue).type = "request"
    /\ Last(requests_queue).file = "a.txt"
    /\ lastOp.raised = NoError

\* The object after a misuse: main_server.kill() called, the error raised,
\* and no field of the correlator, no queue and no file touched.
TornDown(st, error) ==
    /\ st.raised = error
    /\ st.torn
    /\ st.all_ids = all_ids
    /\ st.current_ids = current_ids
    /\ st.newest_responses = newest_responses
    /\ st.requests_queue = requests_queue
    /\ st.files = files

\* C7 (fail-fast teardown), as claimed: request and cancel_request with a
\* command outside COMMANDS, and request and remove_file with a file that is
\* not in self.files, raise with the worker process terminated, that is,
\* with main_server.is_alive() False, and change nothing else.
C7_TerminatedBeforeSignal ==
    /\ \A f \in FileNames : \A st \in request(Self, BadCommand, f) :
          TornDown(st, RequestInvalidCommand) /\ ~st.alive
    /\ \A st \in cancel_request(Self, BadCommand) :
          TornDown(st, CancelInvalidCommand) /\ ~st.alive
    /\ \A f \in FileNames :
          ~HasFile(files, f) =>
             /\ \A c \in COMMANDS : \A st \in request(Self, c, f) :
                   TornDown(st, RequestUnknownFile) /\ ~st.alive
             /\ \A st \in remove_file(Self, f) :
                   TornDown(st, RemoveUnknownFile) /\ ~st.alive

\* C7 (fail-fast teardown), amended: request and cancel_request with a
\* command outside COMMANDS, and request and remove_file with a file that is
\* not in self.files, call main_server.kill() and then raise, and change
\* nothing else: no identifier is issued, no entry of current_ids written,
\* no message sent. The process they killed takes no further message and
\* begins no further response, and is_alive() is as it was when the call
\* returns.
C7_FailFastTeardown ==
    /\ \A f \in FileNames : \A st \in request(Self, BadCommand, f) :
          TornDown(st, RequestInvalidCommand) /\ st.alive = alive
    /\ \A st \in cancel_request(Self, BadCommand) :
          TornDown(st, CancelInvalidCommand) /\ st.alive = alive
    /\ \A f \in FileNames :
          ~HasFile(files, f) =>
             /\ \A c \in COMMANDS : \A st \in request(Self, c, f) :
                   TornDown(st, RequestUnknownFile) /\ st.alive = alive
             /\ \A st \in remove_file(Self, f) :
                   TornDown(st, RemoveUnknownFile) /\ st.alive = alive
             /\ \A c \in COMMANDS : request(Self, c, f) # {}
             /\ remove_file(Self, f) # {}
    /\ lastOp.raised \in {RequestInvalidCommand, RequestUnknownFile,
                          CancelInvalidCommand, RemoveUnknownFile}
          => torn /\ ~Running(Self)

\* remove_file has just raised for a file that is not in the mirror, with
\* messages sent before it still in the requests queue and the killed
\* process not yet gone.
C7_Witness ==
    /\ lastOp.raised = RemoveUnknownFile
    /\ ~HasFile(files, "a.txt")
    /\ alive /\ torn
    /\ requests_queue # <<>>

\* C8 (removal updates the mirror), as claimed: remove_file(f) with f
\* present sends a removal notification and takes f out of self.files, so
\* that a request on f then raises the unknown-file error, and a respawn
\* after it sends upserts for exactly the other files and none for f.
C8_RemovalUpdatesMirror ==
    \A f \in FileNames :
        HasFile(files, f) =>
           \A st \in remove_file(Self, f) :
              /\ st.raised = NoError
              /\ Last(st.requests_queue).type = "notification"
              /\ Last(st.requests_queue).remove
              /\ Last(st.requests_queue).file = f
              /\ ~HasFile(st.files, f)
              /\ \A c \in COMMANDS : \A st2 \in request(st, c, f) :
                    st2.raised = RequestUnknownFile
              /\ \A st3 \in create_server([st EXCEPT !.alive = FALSE]) :
                    LET sent == [k \in 1..(Len(st3.requests_queue)
                                            - Len(st.requests_queue)) |->
                                   st3.requests_queue[Len(st.requests_queue) + k]]
                    IN  /\ \A k \in 1..Len(sent) :
                              /\ sent[k].type = "notification"
                              /\ ~sent[k].remove
                              /\ sent[k].file # f
                        /\ \A g \in FileNames \ {f} :
                              HasFile(files, g) =>
                                 \E k \in 1..Len(sent) :
                                    /\ sent[k].file = g
                                    /\ sent[k].contents = DataOf(files, g)

\* C9 (transparent respawn), as claimed: with the worker dead and not
\* killed by kill_IPC, request, cancel_request, get_response and remove_file
\* leave a worker running, and raise nothing.
C9_TransparentRespawn ==
    (~alive /\ ~torn) =>
       /\ \A c \in COMMANDS, f \in FileNames :
             HasFile(files, f) =>
                \A st \in request(Self, c, f) : st.alive /\ st.raised = NoError
       /\ \A c \in COMMANDS :
             \A st \in cancel_request(Self, c) : st.alive /\ st.raised = NoError
       /\ \A c \in COMMANDS :
             \A st \in get_response(Self, c) : st.alive /\ st.raised = NoError
       /\ \A f \in FileNames :
             HasFile(files, f) =>
                \A st \in remove_file(Self, f) : st.alive /\ st.raised = NoError

\* The outcomes, in the current state, of every call of the public API
\* but kill_IPC.
Calls ==
    UNION ({ping(Self)}
           \cup {request(Self, c, f) : c \in CommandInputs, f \in FileNames}
           \cup {cancel_request(Self, c) : c \in CommandInputs}
           \cup {get_response(Self, c) : c \in CommandInputs}
           \cup {update_file(Self, u[1], u[2]) : u \in UpdateInputs}
           \cup {remove_file(Self, f) : f \in FileNames})

\* C10 (unusable after teardown): once main_server.kill() has been called,
\* directly or in a failing call, it stays so: no call of the public API
\* starts a worker, the killed process takes no message from the requests
\* queue, where every message sent since stays, and puts no further
\* response on the response queue (it can finish writing one), and
\* no response that is handled bears the identifier of a message waiting in
\* the requests queue.
C10_UnusableAfterTeardown ==
    /\ [](torn =>
            /\ \A st \in Calls : st.torn /\ (st.alive => alive)
            /\ \A d \in drained : \A k \in 1..Len(requests_queue) :
                  requests_queue[k].id # d.id)
    /\ [][torn =>
            /\ torn'
            /\ alive' => alive
            /\ pending' \subseteq pending
            /\ Len(response_queue') <= Len(response_queue)
            /\ Len(requests_queue') >= Len(requests_queue)
            /\ SubSeq(requests_queue', 1, Len(requests_queue))
                  = requests_queue]_vars

\* After a teardown: get_response has drained responses the worker had
\* emitted before, with messages left in the queue of the killed worker,
\* which has exited.
C10_Witness ==
    /\ torn /\ ~alive
    /\ drained # {}
    /\ requests_queue # <<>>

\* The messages of q2 that follow those of q1.
Appended(q1, q2) ==
    [k \in 1..(Len(q2) - Len(q1)) |-> q2[Len(q1) + k]]

\* C11 (mirror replay on respawn): check_server on a dead worker leaves a
\* worker running, leaves self.files as it was, names and contents and
\* order, and sends one upsert notification per entry of self.files, with
\* the contents of the entry, and nothing else; on a live worker it does
\* nothing.
C11_MirrorReplay ==
    \A st \in check_server(Self) :
        IF alive
        THEN st = Self
        ELSE /\ st.alive
             /\ st.raised = NoError
             /\ st.files = files
             /\ LET sent == Appended(requests_queue, st.requests_queue)
                IN  /\ SubSeq(st.requests_queue, 1, Len(requests_queue))
                          = requests_queue
                    /\ Len(sent) = Len(files)
                    /\ \A k \in 1..Len(sent) :
                          /\ sent[k].type = "notification"
                          /\ ~sent[k].remove
                          /\ sent[k].file = files[k].name
                          /\ sent[k].contents = files[k].data

\* The worker is dead, two files are in the mirror, one of them updated
\* twice, and check_server replays them.
C11_Witness ==
    /\ ~alive
    /\ Len(files) = 2
    /\ DataOf(files, "a.txt") = "2"
    /\ \E st \in check_server(Self) :
          Len(st.requests_queue) = Len(requests_queue) + 2

\* C12 (fresh channels on respawn), as claimed: the worker that check_server
\* spawns in place of a dead one is given empty queues, so that it finds in
\* its requests queue the replay of the mirror and no message sent to the
\* dead worker, and the client finds in its response queue no response the
\* dead worker had emitted.
C12_FreshChannels ==
    ~alive =>
       \A st \in check_server(Self) :
          /\ st.requests_queue = Appended(requests_queue, st.requests_queue)
          /\ st.response_queue = <<>>

\* The outcomes of the calls on the object `st` that are neither
\* cancel_request nor get_response.
OtherCalls(st) ==
    UNION ({ping(st), check_server(st), {kill_IPC(st)}}
           \cup {request(st, c, f) : c \in CommandInputs, f \in FileNames}
           \cup {cancel_request(st, BadCommand),
                 get_response(st, BadCommand)}
           \cup {update_file(st, u[1], u[2]) : u \in UpdateInputs}
           \cup {remove_file(st, f) : f \in FileNames})

\* C13 (respawn preserves correlator state): check_server on a dead worker
\* removes nothing from all_ids and leaves current_ids and newest_responses
\* as they were; an identifier that was live for a command is live and in
\* all_ids after it, and after one more call it has left all_ids only if
\* get_response handled a response bearing it, and the command has no live
\* identifier only if that happened or the call was cancel_request of the
\* command (a request of the command gives it another live identifier).
C13_RespawnKeepsCorrelator ==
    ~alive =>
       \A st \in check_server(Self) :
          /\ \A i \in Ids : CopiesIn(i, st.all_ids) >= CopiesIn(i, all_ids)
          /\ st.current_ids = current_ids
          /\ st.newest_responses = newest_responses
          /\ \A c \in COMMANDS :
                current_ids[c] # 0 =>
                   LET i == current_ids[c]
                       Seen(s2) == \E k \in 1..Len(s2.log) : s2.log[k].id = i
                   IN  /\ ListHas(st.all_ids, i)
                       /\ \A s2 \in OtherCalls(st) :
                             /\ ListHas(s2.all_ids, i)
                             /\ s2.current_ids[c] # 0
                             /\ s2.current_ids[c] # i
                                   => s2 \in request(st, c, "a.txt")
                                             \cup request(st, c, "b.txt")
                       /\ \A d \in COMMANDS : \A s2 \in cancel_request(st, d) :
                             /\ ListHas(s2.all_ids, i)
                             /\ s2.current_ids[c] = IF d = c THEN 0 ELSE i
                       /\ \A d \in COMMANDS : \A s2 \in get_response(st, d) :
                             /\ ListHas(s2.all_ids, i) <=> ~Seen(s2)
                             /\ s2.current_ids[c] = IF Seen(s2) THEN 0 ELSE i

\* The worker is dead with a request live and a file to replay, and the
\* answer to the request is in the response queue, so that after the
\* respawn get_response clears the identifier.
C13_Witness ==
    /\ ~alive
    /\ files # <<>>
    /\ \E c \in COMMANDS :
          /\ current_ids[c] # 0
          /\ \E k \in 1..Len(response_queue) :
                response_queue[k].id = current_ids[c]
          /\ \E st \in check_server(Self) :
                \E s2 \in get_response(st, c) : s2.ret.id = current_ids[c]

\* The orders in which n responses can arrive.
Orders(n) ==
    {p \in [1..n -> 1..n] : \A j, k \in 1..n : p[j] = p[k] => j = k}

\* The responses that are or can still be emitted for the messages sent:
\* those in the response queue, then those to the messages the worker
\* holds, then those to the messages waiting in the requests queue.
Arrivals ==
    LET held == {ResponseTo(m) : m \in pending}
        some == CHOOSE s \in [1..Cardinality(held) -> held] :
                   \A j, k \in 1..Cardinality(held) : s[j] = s[k] => j = k
    IN  response_queue \o some
           \o [k \in 1..Len(requests_queue) |-> ResponseTo(requests_queue[k])]

\* The client state a drain leaves.
Observed(st) ==
    [all_ids |-> st.all_ids, current_ids |-> st.current_ids,
     newest_responses |-> st.newest_responses, raised |-> st.raised]

\* C14 (response order independence): check_responses leaves the same
\* all_ids, current_ids and newest_responses, and raises nothing, whatever
\* the order in which the responses to the messages sent are in the response
\* queue, each of them in full and none still to come, when it runs.
C14_ResponseOrderIndependence ==
    LET q == Arrivals
        Id == [k \in 1..Len(q) |-> k]
        InOrder(p) == [Self EXCEPT !.response_queue =
                                      [k \in 1..Len(q) |-> q[p[k]]],
                                   !.requests_queue = <<>>,
                                   !.pending = {},
                                   !.writing = Whole]
    IN  \A p \in Orders(Len(q)) :
           /\ check_responses(InOrder(p)) # {}
           /\ {Observed(st) : st \in check_responses(InOrder(p))}
                 = {Observed(st) : st \in check_responses(InOrder(Id))}
           /\ \A st \in check_responses(InOrder(p)) :
                 st.raised = NoError /\ st.response_queue = <<>>

\* Two responses in the response queue, to a superseded request and to the
\* live request of the same command.
C14_Witness ==
    \E j, k \in 1..Len(response_queue) :
        /\ j # k
        /\ response_queue[j].command = response_queue[k].command
        /\ track[response_queue[j].id].kind = "superseded"
        /\ track[response_queue[k].id].kind = "live"
        /\ current_ids[response_queue[k].command] = response_queue[k].id

\* C15 (cancel is a local transition): cancel_request with a command of
\* COMMANDS writes 0 to the command's entry of current_ids and nothing else:
\* all_ids, the other entries of current_ids, newest_responses, files, both
\* queues and the worker process are as they were, and nothing is raised.
C15_CancelIsLocal ==
    \A c \in COMMANDS :
        cancel_request(Self, c) = {[Self EXCEPT !.current_ids[c] = 0]}

\* A request was cancelled while a response was buffered for its command:
\* the response is still buffered, the identifier still in all_ids, and the
\* request still on its way to the worker or held by it.
C15_Witness ==
    \E i \in Ids : \E c \in COMMANDS :
        /\ track[i] = Cancelled(c)
        /\ ListHas(all_ids, i)
        /\ current_ids[c] = 0
        /\ newest_responses[c] # None
        /\ files # <<>>
        /\ \/ \E k \in 1..Len(requests_queue) : requests_queue[k].id = i
           \/ \E m \in pending : m.id = i

\* C16 (allocator termination): the identifiers the loop of create_message
\* can return are those not in all_ids; with one of them left the loop
\* returns at last (randint being fair), with none left it never returns;
\* and an identifier leaves all_ids only when get_response handles a
\* response bearing it, so the identifiers of unanswered messages stay.
C16_AllocatorTermination ==
    /\ [](\A i \in Ids : (i \in NewIds(all_ids)) <=> ~Redraws(all_ids, i))
    /\ [](ping(Self) = {} <=> \A i \in Ids : ListHas(all_ids, i))
    /\ (draw # 0 /\ NewIds(all_ids) # {}) ~> (draw = 0)
    /\ [][(draw # 0 /\ NewIds(all_ids) = {}) => draw' # 0]_vars
    /\ [][\A i \in Ids :
             (ListHas(all_ids, i) /\ ~ListHas(all_ids', i))
                => \E d \in drained' : d.id = i]_vars

\* id_max pings were sent and none was answered: every identifier is in
\* all_ids, and the loop of one more ping is running.
C16_Witness ==
    /\ draw # 0
    /\ \A i \in Ids : ListHas(all_ids, i)
    /\ Len(requests_queue) + Cardinality(pending) = id_max
    /\ response_queue = <<>>
    /\ drained = {}

\* C17 (non-blocking drain), as claimed: get_response with a command of
\* COMMANDS always returns, raising nothing: it handles every response that
\* is in the response queue, in the order of the queue, leaves the queue
\* empty, and returns None when the slot of the command is empty and no
\* response it handles bears the command's live identifier, be a request
\* for the command outstanding or the worker dead.
C17_NonBlockingDrain ==
    \A c \in COMMANDS :
        /\ get_response(Self, c) # {}
        /\ \A st \in get_response(Self, c) :
              /\ st.raised = NoError
              /\ st.response_queue = <<>>
              /\ Len(st.log) >= Len(response_queue)
              /\ SubSeq(HandledBy(st), 1, Len(response_queue))
                    = response_queue
              /\ (newest_responses[c] = None
                     /\ Accepted(HandledBy(st), c) = {}) => st.ret = None

\* C18 (live identifiers are outstanding): every entry of current_ids that
\* is not 0 is in all_ids, no two commands have the same entry other than
\* 0, and the identifier that a call appends to all_ids is the entry of no
\* command before the call.
C18_LiveIdsOutstanding ==
    /\ \A c \in COMMANDS :
          current_ids[c] # 0 => ListHas(all_ids, current_ids[c])
    /\ \A c, d \in COMMANDS :
          (c # d /\ current_ids[c] # 0) => current_ids[c] # current_ids[d]
    /\ \A st \in Sends \cup check_server(Self) :
          \A i \in Issued(st) : \A c \in COMMANDS : current_ids[c] # i

\* Two commands have a live identifier each, and a response to one of the
\* two requests is in the response queue.
C18_Witness ==
    /\ current_ids["autocomplete"] # 0
    /\ current_ids["highlight"] # 0
    /\ \E k \in 1..Len(response_queue) :
          response_queue[k].id = current_ids["highlight"]

\* C19 (removal never fails): the responses in the response queue, and
\* those still to come for the messages the worker holds or will read, bear
\* pairwise different identifiers that are all in all_ids; so get_response,
\* now or after a respawn by check_server, raises no ValueError and leaves
\* no response in the queue, and no call made so far has raised one.
C19_RemovalNeverFails ==
    /\ \A k \in 1..Len(Arrivals) : ListHas(all_ids, Arrivals[k].id)
    /\ \A j, k \in 1..Len(Arrivals) :
          j # k => Arrivals[j].id # Arrivals[k].id
    /\ lastOp.raised # ValueError
    /\ \A c \in COMMANDS :
          /\ \A st \in get_response(Self, c) :
                /\ st.raised # ValueError
                /\ st.raised = NoError => st.response_queue = <<>>
          /\ \A st \in check_server(Self) : \A s2 \in get_response(st, c) :
                /\ s2.raised # ValueError
                /\ s2.raised = NoError => s2.response_queue = <<>>

\* The worker died leaving a response in the response queue and a message
\* unread in the requests queue; check_server respawns it and get_response
\* then handles the response.
C19_Witness ==
    /\ ~alive
    /\ response_queue # <<>>
    /\ requests_queue # <<>>
    /\ \E st \in check_server(Self) : \E s2 \in get_response(st, "autocomplete") :
          /\ s2.alive
          /\ Len(s2.log) = Len(response_queue)

\* C20 (eventual delivery): with no cancel_request made, a request of a
\* command that was sent and is live leads to a get_response of the command
\* that returns the response bearing the request's identifier, unless the
\* worker dies or is killed, or another request of the command is made
\* after the response was stored.
C20_EventualDelivery ==
    \A i \in Ids :
        (track[i] = Live("autocomplete"))
           ~> \/ lastOp.ret = [id |-> i, command |-> "autocomplete"]
              \/ ~Running(Self)
              \/ current_ids["autocomplete"] \notin {0, i}

\* get_response returned the response to a request that a poll of another
\* command had handled and stored before.
C20_Witness ==
    /\ alive
    /\ lastOp.ret.command = "autocomplete"
    /\ lastOp.ret.id # 0
    /\ drained = {}
    /\ newest_responses["autocomplete"] = None

====
